---- MODULE Spec2Model ----
(***************************************************************************)
(* A model of the request handlers of access/views.py (gitmanager): the    *)
(* model/template file views with their language resolution, the course    *)
(* listings and the A+ configuration export.                               *)
(*                                                                         *)
(* Encoding.  A Python str whose characters matter (a file path, a         *)
(* language code, a requested file name) is a sequence of one-character    *)
(* strings; other strings are atoms.  An Optional value is a sequence of   *)
(* length 0 (None) or 1 (Some(v)).  A dict is a function from field names. *)
(***************************************************************************)
EXTENDS Naturals, Sequences, FiniteSets, TLC

VARIABLES
    store,    \* the cached course configurations (CourseConfig), by course key
    active,   \* per worker thread: the language activated by translation.activate
    pc,       \* per worker: the stage its request is about to run, "idle" or "done"
    req,      \* per worker: the request being handled
    loc,      \* per worker: the local variables of the running view
    stages,   \* per worker: the stages the request has entered, in order
    opened,   \* per worker: the absolute paths the request has passed to open()
    resp      \* per worker: the response (or raised exception) of the request

vars == <<store, active, pc, req, loc, stages, opened, resp>>

----------------------------------------------------------------------------
(* Values *)

None == <<>>
Some(v) == <<v>>

\* Python truthiness of an Optional[str]: neither None nor the empty string.
Truthy(opt) == opt # None /\ Len(opt[1]) > 0

Min(a, b) == IF a < b THEN a ELSE b

\* dict merge: d updated with the entries of e
Update(d, e) ==
    [n \in (DOMAIN d) \cup (DOMAIN e) |-> IF n \in DOMAIN e THEN e[n] ELSE d[n]]

----------------------------------------------------------------------------
(* Bounds and input sets *)

\* the longest declared file list drawn for an exercise
MaxFiles == 2

Workers == {"w1", "w2"}

Slash == "/"

\* declared file paths: same basename in different directories, a basename
\* differing in case only, a basename that ends like another, a directory
\* named like a file, a trailing slash
DeclaredPaths ==
    { <<"a">>, <<"d", Slash, "a">>, <<"e", Slash, "a">>, <<"d", Slash, "A">>,
      <<"a", "b">>, <<"a", Slash, "b">>, <<"a", Slash>> }

\* requested base file names (the URL parameter)
Parameters == { <<"a">>, <<"A">>, <<"b">> }

fi == <<"f", "i">>
en == <<"e", "n">>
fr == <<"f", "r">>
enGB == <<"e", "n", "-", "G", "B">>

\* values of the lang query parameter; None is a request without it
LangParams == { None, Some(<<>>), Some(<<"e">>), Some(en), Some(enGB), Some(fr) }

BaseUrls == { "https://x/", "https://y/" }

RECURSIVE SeqsUpTo(_, _)
SeqsUpTo(S, n) ==
    IF n = 0 THEN { <<>> }
    ELSE LET shorter == SeqsUpTo(S, n - 1)
         IN  shorter \cup { Append(q, x) : q \in { s \in shorter : Len(s) = n - 1 }, x \in S }

FileLists == SeqsUpTo(DeclaredPaths, MaxFiles)

----------------------------------------------------------------------------
(* The course configurations *)

Node(cls, attrs, children) ==
    [cls |-> cls, attrs |-> Update(attrs, [children |-> Some(children)])]

DemoModules ==
    << Node("Module", [key |-> Some("M1"), name |-> Some("Module 1"), status |-> None],
         << Node("Chapter", [key |-> Some("ch1"), title |-> Some("Chapter 1"),
                             static_content |-> Some("ch1.html"), audience |-> None],
              << Node("Exercise", [key |-> Some("ex1"), config |-> Some("ex1.yaml"),
                                   max_points |-> Some("10"), title |-> None], << >>),
                 Node("Exercise", [key |-> Some("ex2"), config |-> None,
                                   max_points |-> None, title |-> Some("Exercise 2")],
                   << Node("GenericItem", [key |-> Some("lti1"), title |-> None], << >>) >>),
                 Node("GenericItem", [key |-> Some("lti2"), title |-> Some("LTI 2")], << >>) >>),
            Node("Exercise", [key |-> Some("ex3"), config |-> Some(""),
                              max_points |-> Some("5"), title |-> Some("Exercise 3")], << >>) >>),
       Node("Module", [key |-> Some("M2"), name |-> None, status |-> Some("hidden")], << >>) >>

OtherModules ==
    << Node("Module", [key |-> Some("N1"), name |-> Some("Only module"), status |-> None],
         << Node("Exercise", [key |-> Some("ex1"), config |-> Some("ex1.yaml"),
                              max_points |-> Some("1"), title |-> Some("Nested")],
              << Node("Chapter", [key |-> Some("ch9"), title |-> None,
                                  static_content |-> Some("ch9.html"), audience |-> Some("internal")],
                   << >>) >>) >>) >>

\* the per-language data of the exercises of course "demo"; files is the list
\* declared as model_files and template_files of ex1 in the default language
DemoExercises(files) ==
    [ex1 |-> (fi :> [key |-> "ex1", title |-> "Tehtava 1",
                     model_files |-> files, template_files |-> files]
              @@ en :> [key |-> "ex1", title |-> "Exercise 1",
                        model_files |-> << <<"e", "n", Slash, "a">> >>]),
     ex2 |-> (fi :> [key |-> "ex2", title |-> "Tehtava 2"])]

OtherExercises ==
    [ex1 |-> (en :> [key |-> "ex1", title |-> "Nested",
                     model_files |-> << <<"a">> >>])]

CourseConfig(key, lang, name, modules, exercises, order) ==
    [key |-> key, lang |-> lang,
     data |-> [name |-> Some(name), static_dir |-> Some("_static"),
               contact |-> None, modules |-> Some(modules)],
     exercises |-> exercises,
     order |-> order]

\* the order in which the store enumerates its courses
CourseOrder == << "demo", "other" >>

StoreWith(files) ==
    [demo |-> CourseConfig("demo", fi, "Demo course", DemoModules, DemoExercises(files),
                          << "ex1", "ex2" >>),
     other |-> CourseConfig("other", en, "Other course", OtherModules, OtherExercises, << "ex1" >>)]

DefaultFiles == << <<"d", Slash, "a">>, <<"e", Slash, "a">> >>

----------------------------------------------------------------------------
(* ConfigStore and language helpers *)

\* CourseConfig.get(course_key): the cached configuration, None for an unknown key
CourseConfig_get(st, course_key) ==
    IF course_key \in DOMAIN st THEN Some(st[course_key]) ELSE None

\* CourseConfig.path_to(course_key, path): a pure join below the course directory
path_to(course_key, path) == <<"courses", Slash, course_key, Slash>> \o path

\* config.exercise_data(exercise_key, lang=lang): the exercise's data in the
\* requested language, in the course's default language when none is requested;
\* None for an unknown exercise or a requested language without content
exercise_data(config, exercise_key, lang) ==
    IF exercise_key \notin DOMAIN config.exercises THEN None
    ELSE LET byLang == config.exercises[exercise_key]
             l == IF Truthy(lang) THEN lang[1] ELSE config.lang
         IN  IF l \in DOMAIN byLang THEN Some(byLang[l]) ELSE None

\* config.exercise_config(key): the exercise's configuration in all its languages
exercise_config(config, exercise_key) ==
    IF exercise_key \in DOMAIN config.exercises
    THEN Some(config.exercises[exercise_key]) ELSE None

\* the requested code passed on uncut
NormalizeLang_keep(lang_code) == lang_code

\* lines 164-165: if lang_code: lang_code = lang_code[:2]
NormalizeLang(lang_code) ==
    IF Truthy(lang_code)
    THEN Some(SubSeq(lang_code[1], 1, Min(2, Len(lang_code[1]))))
    ELSE lang_code

\* lines 172-173: if not lang_code: lang_code = config.lang
DefaultLang(lang_code, config) ==
    IF ~Truthy(lang_code) THEN config.lang ELSE lang_code[1]

----------------------------------------------------------------------------
(* FileLocator: find_name of exercise_model and exercise_template *)

\* str.split(sep): the pieces of s between the occurrences of sep
RECURSIVE split(_, _)
split(s, sep) ==
    IF \A i \in 1..Len(s) : s[i] # sep THEN << s >>
    ELSE LET i == CHOOSE k \in 1..Len(s) :
                      s[k] = sep /\ \A j \in 1..(k - 1) : s[j] # sep
         IN  << SubSeq(s, 1, i - 1) >> \o split(SubSeq(s, i + 1, Len(s)), sep)

\* lines 67 and 97: [(path, path.split('/')[-1]) for path in paths]
models(paths) ==
    [i \in 1..Len(paths) |->
        LET pieces == split(paths[i], Slash) IN << paths[i], pieces[Len(pieces)] >>]

\* the last pair whose name is the parameter
find_loop_last(pairs, parameter, i) ==
    LET hits == { k \in i..Len(pairs) : pairs[k][2] = parameter }
    IN  IF hits = {} THEN None
        ELSE Some(pairs[CHOOSE k \in hits : \A j \in hits : j <= k][1])

\* lines 68-71 and 98-101: the first pair whose name is the parameter, else None
RECURSIVE find_loop(_, _, _)
find_loop(pairs, parameter, i) ==
    IF i > Len(pairs) THEN None
    ELSE IF pairs[i][2] = parameter THEN Some(pairs[i][1])
    ELSE find_loop(pairs, parameter, i + 1)

\* the first declared path, whatever its name
find_name_first(paths, parameter) == IF paths = << >> THEN None ELSE Some(paths[1])

\* lines 66-72 and 96-102: find_name(exercise[...], parameter)
find_name(paths, parameter) == find_loop(models(paths), parameter, 1)

----------------------------------------------------------------------------
(* Requests and responses *)

FileViews == {"exercise_model", "exercise_template"}

Request(view, course_key, exercise_key, parameter, lang, base, ajax) ==
    [view |-> view, course_key |-> course_key, exercise_key |-> exercise_key,
     parameter |-> parameter, lang |-> lang, base |-> base, ajax |-> ajax]

NoRequest == Request("none", "-", "-", <<>>, None, "-", FALSE)

\* (course_key, exercise_key) of the file requests: a known exercise with file
\* lists, one without, an unknown exercise, an unknown course
FileTargets == { <<"demo", "ex1">>, <<"demo", "ex2">>, <<"demo", "zz">>, <<"nope", "ex1">> }

FileRequests(params, langs) ==
    { Request(v, t[1], t[2], p, l, "https://x/", FALSE) :
        v \in FileViews, t \in FileTargets, p \in params, l \in langs }

CourseKeys == {"demo", "other", "nope"}

\* 'model_files' / 'template_files': the exercise field a file view reads
FilesField(view) == IF view = "exercise_model" THEN "model_files" ELSE "template_files"

\* the template view raising the model view's message
MissingMessage_model(view) == "Model file missing"

\* the message of the Http404 raised for a missing file (lines 79 and 109)
MissingMessage(view) ==
    IF view = "exercise_model" THEN "Model file missing" ELSE "Template file missing"

\* raise Http404()
Http404 == [kind |-> "Http404", message |-> None, cause |-> None]

\* raise Http404(message) from error
Http404From(message, error) ==
    [kind |-> "Http404", message |-> Some(message), cause |-> Some(error)]

\* HttpResponse(content, content_type='text/plain')
HttpResponse(content) ==
    [kind |-> "HttpResponse", content |-> content, content_type |-> "text/plain"]

\* an exception no handler catches
Unhandled(error) == [kind |-> "Exception", error |-> error]

NoResponse == [kind |-> "none"]

NoLocals ==
    [lang |-> None, lang_code |-> None, lookup_lang |-> None, course |-> None,
     exercise |-> None, path |-> None, content |-> None, disk |-> "-"]

\* what open() and read() can do with a declared path: read the file, raise
\* FileNotFoundError, raise another error (PermissionError, IsADirectoryError,
\* UnicodeDecodeError)
DiskOutcomes == {"file", "FileNotFoundError", "OSError"}

\* the text of the file at an absolute path
Content(abs) == <<"content of">> \o abs

Idle(w) == pc[w] = "idle"

\* the request ends: with a response or with a raised exception
Finish(w, response) ==
    /\ pc' = [pc EXCEPT ![w] = "done"]
    /\ resp' = [resp EXCEPT ![w] = response]

Goto(w, stage) ==
    /\ pc' = [pc EXCEPT ![w] = stage]
    /\ UNCHANGED resp

Enter(w, stage) == stages' = [stages EXCEPT ![w] = Append(@, stage)]

----------------------------------------------------------------------------
(* exercise_model and exercise_template, stage by stage *)

\* the URL dispatcher hands a file request to its view
Start(w, r) ==
    /\ Idle(w)
    /\ req' = [req EXCEPT ![w] = r]
    /\ pc' = [pc EXCEPT ![w] = "RESOLVE_LANGUAGE"]
    /\ UNCHANGED <<store, active, loc, stages, opened, resp>>

\* lines 60 and 164-165: read the lang parameter and cut it to two characters
ResolveLanguage(w) ==
    /\ pc[w] = "RESOLVE_LANGUAGE"
    /\ Enter(w, "RESOLVE_LANGUAGE")
    /\ loc' = [loc EXCEPT ![w].lang = req[w].lang,
                          ![w].lang_code = NormalizeLang(req[w].lang)]
    /\ Goto(w, "LOOKUP_EXERCISE")
    /\ UNCHANGED <<store, active, req, opened>>

\* lines 166-175: the course, the exercise in the requested language, then the
\* default language and translation.activate
LookupExercise(w) ==
    /\ pc[w] = "LOOKUP_EXERCISE"
    /\ Enter(w, "LOOKUP_EXERCISE")
    /\ LET lang_code == loc[w].lang_code
           config == CourseConfig_get(store, req[w].course_key)
       IN  IF config = None
           THEN /\ Finish(w, Http404)
                /\ UNCHANGED <<loc, active>>
           ELSE LET exercise == exercise_data(config[1], req[w].exercise_key, lang_code)
                IN  IF exercise = None
                    THEN /\ Finish(w, Http404)
                         /\ loc' = [loc EXCEPT ![w].course = Some(config[1].key),
                                               ![w].lookup_lang = Some(lang_code)]
                         /\ UNCHANGED active
                    ELSE LET resolved == DefaultLang(lang_code, config[1])
                         IN  /\ active' = [active EXCEPT ![w] = Some(resolved)]
                             /\ loc' = [loc EXCEPT ![w].course = Some(config[1].key),
                                                   ![w].lookup_lang = Some(lang_code),
                                                   ![w].exercise = exercise,
                                                   ![w].lang_code = Some(resolved),
                                                   ![w].lang = Some(resolved)]
                             /\ Goto(w, "LOOKUP_FILE_LIST")
    /\ UNCHANGED <<store, req, opened>>

\* lines 63-65 and 93-95: path = None; is the file list declared?
LookupFileList(w) ==
    /\ pc[w] = "LOOKUP_FILE_LIST"
    /\ Enter(w, "LOOKUP_FILE_LIST")
    /\ IF FilesField(req[w].view) \in DOMAIN loc[w].exercise[1]
       THEN Goto(w, "LOCATE_BASENAME")
       ELSE Finish(w, Http404)
    /\ UNCHANGED <<store, active, req, loc, opened>>

\* lines 66-74 and 96-104: find_name, then "if path:"
LocateBasename(w) ==
    /\ pc[w] = "LOCATE_BASENAME"
    /\ Enter(w, "LOCATE_BASENAME")
    /\ LET path == find_name(loc[w].exercise[1][FilesField(req[w].view)], req[w].parameter)
       IN  /\ loc' = [loc EXCEPT ![w].path = path]
           /\ IF Truthy(path) THEN Goto(w, "READ_FILE") ELSE Finish(w, Http404)
    /\ UNCHANGED <<store, active, req, opened>>

\* a view without the except clause
ReadFailure_uncaught(view, error) == Unhandled(error)

\* lines 78-79 and 108-109: only FileNotFoundError is caught, and raised again
\* as an Http404 that names the missing file; any other error leaves the view
ReadFailure(view, error) ==
    IF error = "FileNotFoundError"
    THEN Http404From(MissingMessage(view), error)
    ELSE Unhandled(error)

\* lines 75-79 and 105-109: open and read the file below the course directory
ReadFile(w) ==
    /\ pc[w] = "READ_FILE"
    /\ Enter(w, "READ_FILE")
    /\ LET abs == path_to(loc[w].course[1], loc[w].path[1])
       IN  /\ opened' = [opened EXCEPT ![w] = Append(@, abs)]
           /\ \E d \in DiskOutcomes :
                /\ loc' = [loc EXCEPT ![w].disk = d,
                                      ![w].content = IF d = "file" THEN Some(Content(abs)) ELSE None]
                /\ IF d = "file" THEN Goto(w, "RESPOND")
                   ELSE Finish(w, ReadFailure(req[w].view, d))
    /\ UNCHANGED <<store, active, req>>

\* lines 81 and 110: return HttpResponse(content, content_type='text/plain')
Respond(w) ==
    /\ pc[w] = "RESPOND"
    /\ Enter(w, "RESPOND")
    /\ Finish(w, HttpResponse(loc[w].content[1]))
    /\ UNCHANGED <<store, active, req, loc, opened>>

\* the response (or the exception) has left the view: the worker thread is
\* free for the next request; its locals are gone, its active language stays
Return(w) ==
    /\ pc[w] = "done"
    /\ pc' = [pc EXCEPT ![w] = "idle"]
    /\ req' = [req EXCEPT ![w] = NoRequest]
    /\ loc' = [loc EXCEPT ![w] = NoLocals]
    /\ stages' = [stages EXCEPT ![w] = << >>]
    /\ opened' = [opened EXCEPT ![w] = << >>]
    /\ resp' = [resp EXCEPT ![w] = NoResponse]
    /\ UNCHANGED <<store, active>>

FileSteps(w) ==
    \/ ResolveLanguage(w)
    \/ LookupExercise(w)
    \/ LookupFileList(w)
    \/ LocateBasename(w)
    \/ ReadFile(w)
    \/ Respond(w)

----------------------------------------------------------------------------
(* index and course: the listings *)

\* JsonResponse(data) and render(request, template, context)
JsonResponse(data) == [kind |-> "JsonResponse", data |-> data]

Render(template, context) ==
    [kind |-> "render", template |-> template, context |-> context, language |-> None]

\* request.build_absolute_uri(reverse(name, args=args))
AbsoluteUri(request, name, args) == << request.base, name >> \o args

\* CourseConfig.all(): every cached configuration, in the store's order
CourseConfig_all(st) == [i \in 1..Len(CourseOrder) |-> st[CourseOrder[i]]]

\* config.get_exercise_list(): the data, in the course's language, of the
\* exercises that have it, in the configuration's order
RECURSIVE exercise_list(_, _)
exercise_list(config, keys) ==
    IF keys = << >> THEN << >>
    ELSE LET byLang == config.exercises[Head(keys)]
         IN  (IF config.lang \in DOMAIN byLang THEN << byLang[config.lang] >> ELSE << >>)
             \o exercise_list(config, Tail(keys))

get_exercise_list(config) == exercise_list(config, config.order)

\* lines 178-195: the picked fields of every entry, in the list's order
filter_fields(dict_list, pick_fields) ==
    [i \in 1..Len(dict_list) |->
        [name \in { pick_fields[k] : k \in 1..Len(pick_fields) } |-> dict_list[i][name]]]

\* lines 16-28
index_response(st, request) ==
    LET course_configs == CourseConfig_all(st)
    IN  IF request.ajax
        THEN JsonResponse([ready |-> TRUE,
                 courses |-> [i \in 1..Len(course_configs) |->
                                 [key |-> course_configs[i].key,
                                  name |-> course_configs[i].data.name[1]]]])
        ELSE Render("access/ready.html", [courses |-> course_configs])

\* lines 31-53
course_response(st, request) ==
    LET course_config == CourseConfig_get(st, request.course_key)
    IN  IF course_config = None THEN Http404
        ELSE LET exercises == get_exercise_list(course_config[1])
             IN  IF request.ajax
                 THEN JsonResponse([ready |-> TRUE,
                          course_name |-> course_config[1].data.name[1],
                          exercises |-> filter_fields(exercises, << "key", "title" >>)])
                 ELSE Render("access/course.html",
                          [course |-> course_config[1].data,
                           exercises |-> exercises,
                           plus_config_url |->
                               AbsoluteUri(request, "aplus-json", << course_config[1].key >>),
                           build_log_url |->
                               AbsoluteUri(request, "build-log-json", << request.course_key >>)])

----------------------------------------------------------------------------
(* aplus_json: the export of the configuration tree *)

\* pydantic's .dict(exclude=exclude, exclude_none=True): a new dict of the
\* fields that are neither excluded nor None
model_dict(attrs, exclude) ==
    [n \in { m \in (DOMAIN attrs) \ exclude : attrs[m] # None } |-> attrs[n][1]]

children(o) == o.attrs.children[1]

\* truthiness of an Optional attribute whose value is an atom
TruthyAttr(opt) == opt # None /\ opt[1] # ""

\* export.exercise(request, config, exercise, of): of with the exercise's
\* absolute URLs merged in: its own, and per language one per model file,
\* named by the file's base name
export_exercise(request, config, exercise, of) ==
    LET byLang == exercise[1]
        files(l) == IF "model_files" \in DOMAIN byLang[l] THEN models(byLang[l].model_files)
                    ELSE << >>
    IN  Update(of,
            [url |-> AbsoluteUri(request, "exercise", << config.key, of.key >>),
             model_answer |->
                 [l \in DOMAIN byLang |->
                     [i \in 1..Len(files(l)) |->
                         AbsoluteUri(request, "model", << config.key, of.key, files(l)[i][2] >>)]]])

\* export.chapter(request, config, of): of with the chapter's static content URL
export_chapter(request, config, of) ==
    Update(of, [url |-> AbsoluteUri(request, "static", << config.key, of.static_content >>)])

\* a dispatch without the Chapter branch
export_node_nochapter(request, config, o) ==
    LET of == model_dict(o.attrs, {"children"})
    IN  IF o.cls = "Exercise" /\ TruthyAttr(o.attrs.config)
        THEN export_exercise(request, config, exercise_config(config, o.attrs.key[1]), of)
        ELSE of

\* lines 135-142: the node's own fields, then the transform its type selects
export_node(request, config, o) ==
    LET of == model_dict(o.attrs, {"children"})
    IN  IF o.cls = "Exercise" /\ TruthyAttr(o.attrs.config)
        THEN export_exercise(request, config, exercise_config(config, o.attrs.key[1]), of)
        ELSE IF o.cls = "Chapter"
        THEN export_chapter(request, config, of)
        ELSE of

\* the children appended in reverse
RECURSIVE children_recursion_reversed(_, _, _)
children_recursion_reversed(request, config, parent) ==
    [i \in 1..Len(children(parent)) |->
        LET o == children(parent)[Len(children(parent)) + 1 - i]
            data == export_node(request, config, o)
        IN  Update(data, [children |-> children_recursion_reversed(request, config, o)])]

\* lines 132-145: every child in order, each with its children attached last
RECURSIVE children_recursion(_, _, _)
children_recursion(request, config, parent) ==
    [i \in 1..Len(children(parent)) |->
        LET o == children(parent)[i]
            data == export_node(request, config, o)
        IN  Update(data, [children |-> children_recursion(request, config, o)])]

\* lines 147-152: the modules, each with its exported children
export_modules(request, config) ==
    LET ms == config.data.modules[1]
    IN  [i \in 1..Len(ms) |->
            LET mf == model_dict(ms[i].attrs, {"children"})
            IN  Update(mf, [children |-> children_recursion(request, config, ms[i])])]

\* lines 126-155
aplus_json(st, request) ==
    LET config == CourseConfig_get(st, request.course_key)
    IN  IF config = None THEN Http404
        ELSE LET data == model_dict(config[1].data, {"modules", "static_dir"})
             IN  JsonResponse(Update(data,
                     [modules |-> export_modules(request, config[1]),
                      build_log_url |->
                          AbsoluteUri(request, "build-log-json", << request.course_key >>)]))

----------------------------------------------------------------------------
(* The views that run in one step *)

IndexRequests ==
    { Request("index", "-", "-", << >>, None, "https://x/", x) : x \in BOOLEAN }

CourseRequests ==
    { Request("course", c, "-", << >>, None, "https://x/", x) :
        c \in CourseKeys, x \in BOOLEAN }

ExportRequests ==
    { Request("aplus_json", c, "-", << >>, None, b, FALSE) : c \in CourseKeys, b \in BaseUrls }

Serve(w, r, response) ==
    /\ Idle(w)
    /\ req' = [req EXCEPT ![w] = r]
    /\ Finish(w, response)
    /\ UNCHANGED <<active, loc, stages, opened>>

\* django.shortcuts.render fills the template in the language that is active
\* on the worker's thread
Rendered(w, response) ==
    IF response.kind = "render" THEN [response EXCEPT !.language = active[w]]
    ELSE response

index(w, r) ==
    /\ Serve(w, r, Rendered(w, index_response(store, r)))
    /\ UNCHANGED store

course(w, r) ==
    /\ Serve(w, r, Rendered(w, course_response(store, r)))
    /\ UNCHANGED store

\* an export whose response carries the language active on the worker
ExportResponse_translated(w, r) ==
    LET response == aplus_json(store, r)
    IN  IF response.kind = "JsonResponse"
        THEN JsonResponse(Update(response.data, [language |-> active[w]]))
        ELSE response

\* the response of an export served by worker w: the view reads the request
\* and the cached configuration, nothing of the worker
ExportResponse(w, r) == aplus_json(store, r)

\* the view writes into the dicts that .dict() built for it (lines 130, 135,
\* 149), never into the cached configuration
AplusJson(w, r) ==
    /\ Serve(w, r, ExportResponse(w, r))
    /\ UNCHANGED store

----------------------------------------------------------------------------
(* Specifications *)

InitWith(files) ==
    /\ store = StoreWith(files)
    /\ active = [w \in Workers |-> None]
    /\ pc = [w \in Workers |-> "idle"]
    /\ req = [w \in Workers |-> NoRequest]
    /\ loc = [w \in Workers |-> NoLocals]
    /\ stages = [w \in Workers |-> << >>]
    /\ opened = [w \in Workers |-> << >>]
    /\ resp = [w \in Workers |-> NoResponse]

\* one worker serving file requests over every declared file list
InitFiles == \E files \in FileLists : InitWith(files)

NextFiles ==
    \/ \E r \in FileRequests(Parameters, LangParams) : Start("w1", r)
    \/ FileSteps("w1")
    \/ Return("w1")

SpecFiles == InitFiles /\ [][NextFiles]_vars

\* two workers serving every view over one fixed configuration
Init == InitWith(DefaultFiles)

SpecParameters == { <<"a">>, <<"b">> }
SpecLangParams == { None, Some(enGB), Some(fr) }

\* the requested file name varies only where an exercise is found
SpecFileRequests ==
    { r \in FileRequests(SpecParameters, SpecLangParams) :
        (r.course_key = "demo" /\ r.exercise_key = "ex1") \/ r.parameter = <<"a">> }

Next ==
    \E w \in Workers :
        \/ \E r \in SpecFileRequests : Start(w, r)
        \/ FileSteps(w)
        \/ \E r \in IndexRequests : index(w, r)
        \/ \E r \in CourseRequests : course(w, r)
        \/ \E r \in ExportRequests : AplusJson(w, r)
        \/ Return(w)

Spec == Init /\ [][Next]_vars

----------------------------------------------------------------------------
(* Properties of the file views *)

StageOrder ==
    << "RESOLVE_LANGUAGE", "LOOKUP_EXERCISE", "LOOKUP_FILE_LIST",
       "LOCATE_BASENAME", "READ_FILE", "RESPOND" >>

FileWorker(w) == req[w].view \in FileViews

Done(w) == pc[w] = "done"

Entered(w, stage) == \E i \in 1..Len(stages[w]) : stages[w][i] = stage

LastStage(w) == stages[w][Len(stages[w])]

\* the stages run in the order of StageOrder, each at most once
StagesInOrder(w) ==
    /\ Len(stages[w]) <= Len(StageOrder)
    /\ stages[w] = SubSeq(StageOrder, 1, Len(stages[w]))
    /\ pc[w] \notin {"idle", "done"} => pc[w] = StageOrder[Len(stages[w]) + 1]

\* a plain-text response that carries the content of the located file
RespondsLocatedFile(w) ==
    /\ resp[w].kind = "HttpResponse"
    /\ stages[w] = StageOrder
    /\ Truthy(loc[w].path)
    /\ resp[w].content = Content(path_to(req[w].course_key, loc[w].path[1]))
    /\ resp[w].content_type = "text/plain"

KnownCourse(w) == req[w].course_key \in DOMAIN store

KnownExercise(w) ==
    /\ KnownCourse(w)
    /\ req[w].exercise_key \in DOMAIN store[req[w].course_key].exercises

\* the last '/'-separated segment of a path
Basename(path) ==
    LET slashes == { i \in 1..Len(path) : path[i] = Slash }
        last == IF slashes = {} THEN 0
                ELSE CHOOSE i \in slashes : \A j \in slashes : j <= i
    IN  SubSeq(path, last + 1, Len(path))

\* C2: a file request for an unknown course or an unknown exercise (or one
\* whose exercise lookup gives None) ends in NotFound and opens no file; no
\* request opens a file before it has located a declared path whose base name
\* is the requested one, and it opens that path only.
C2_NoOpenWithoutLocatedPath ==
    \A w \in Workers : FileWorker(w) =>
        /\ ~KnownExercise(w) => opened[w] = << >>
        /\ (~KnownExercise(w) /\ Done(w)) => resp[w].kind = "Http404"
        /\ (Entered(w, "LOOKUP_EXERCISE") /\ loc[w].exercise = None) =>
               (Done(w) /\ resp[w].kind = "Http404" /\ opened[w] = << >>)
        /\ opened[w] # << >> =>
               /\ Entered(w, "LOCATE_BASENAME")
               /\ Truthy(loc[w].path)
               /\ \E i \in DOMAIN loc[w].exercise[1][FilesField(req[w].view)] :
                      loc[w].exercise[1][FilesField(req[w].view)][i] = loc[w].path[1]
               /\ Basename(loc[w].path[1]) = req[w].parameter
               /\ opened[w] = << path_to(req[w].course_key, loc[w].path[1]) >>

\* one worker ended in NotFound for an unknown course, the other for an
\* unknown exercise, neither having opened a file
C2_Witness ==
    \E w, v \in Workers :
        /\ FileWorker(w) /\ Done(w) /\ ~KnownCourse(w) /\ resp[w].kind = "Http404"
        /\ FileWorker(v) /\ Done(v) /\ KnownCourse(v) /\ ~KnownExercise(v)
        /\ resp[v].kind = "Http404"

\* the first declared path, in list order, whose base name is the parameter
FirstMatch(paths, parameter) ==
    LET hits == { i \in 1..Len(paths) : Basename(paths[i]) = parameter }
    IN  IF hits = {} THEN None
        ELSE Some(paths[CHOOSE i \in hits : \A j \in hits : i <= j])

DeclaredFiles(w) == loc[w].exercise[1][FilesField(req[w].view)]

\* C3: find_name gives the first declared path, in list order, whose last
\* '/'-separated segment equals the requested name exactly, and None when there
\* is none; the located path, joined to the course directory, is the one opened.
C3_FirstMatchingBasename ==
    \A w \in Workers : (FileWorker(w) /\ Entered(w, "LOCATE_BASENAME")) =>
        /\ loc[w].path = FirstMatch(DeclaredFiles(w), req[w].parameter)
        /\ loc[w].path = None => (Done(w) /\ resp[w].kind = "Http404" /\ opened[w] = << >>)
        /\ Entered(w, "READ_FILE") =>
               opened[w] = << path_to(req[w].course_key,
                                      FirstMatch(DeclaredFiles(w), req[w].parameter)[1]) >>

\* two declared paths share the requested base name and the first was read
C3_Witness ==
    \E w \in Workers :
        /\ FileWorker(w) /\ Entered(w, "READ_FILE")
        /\ LET paths == DeclaredFiles(w)
           IN  /\ Len(paths) = 2
               /\ paths[1] # paths[2]
               /\ Basename(paths[1]) = req[w].parameter
               /\ Basename(paths[2]) = req[w].parameter
               /\ opened[w] = << path_to(req[w].course_key, paths[1]) >>

\* the first two characters of a requested language code
FirstTwo(code) == IF Len(code) <= 2 THEN code ELSE << code[1], code[2] >>

Explicit(w) == req[w].lang # None /\ req[w].lang[1] # << >>

Resolved(w) == FileWorker(w) /\ Entered(w, "LOOKUP_EXERCISE") /\ loc[w].exercise # None

\* the exercise has data in this language
HasContent(w, lang) ==
    /\ KnownExercise(w)
    /\ lang \in DOMAIN store[req[w].course_key].exercises[req[w].exercise_key]

\* the language a request resolves to: the first two characters of a
\* requested code, else the course's default language
C4_Resolution(w) ==
    /\ Resolved(w) =>
         /\ Explicit(w) => loc[w].lang = Some(FirstTwo(req[w].lang[1]))
         /\ ~Explicit(w) => loc[w].lang = Some(store[req[w].course_key].lang)
         /\ active[w] = loc[w].lang
    /\ (Entered(w, "LOOKUP_EXERCISE") /\ Explicit(w)
          /\ ~HasContent(w, FirstTwo(req[w].lang[1]))) =>
         (Done(w) /\ resp[w].kind = "Http404" /\ loc[w].exercise = None)

C7_LanguageEndsWithRequest ==
    \A w \in Workers :
        /\ pc[w] = "idle" => active[w] = None
        /\ (FileWorker(w) /\ Done(w) /\ loc[w].exercise = None) => active[w] = None

\* C9: once the exercise is found, an undeclared file list and an unmatched
\* base name end in a plain Http404 (no message, no cause) without any open();
\* a declared path missing on disk ends in an Http404 too, but one that carries
\* "Model file missing" / "Template file missing" and the file error as cause.
C9_NotFoundCauses ==
    \A w \in Workers : (Resolved(w) /\ Done(w)) =>
        /\ FilesField(req[w].view) \notin DOMAIN loc[w].exercise[1] =>
               (resp[w] = Http404 /\ opened[w] = << >>)
        /\ (FilesField(req[w].view) \in DOMAIN loc[w].exercise[1]
              /\ \A i \in DOMAIN DeclaredFiles(w) :
                    Basename(DeclaredFiles(w)[i]) # req[w].parameter) =>
               (resp[w] = Http404 /\ opened[w] = << >>)
        /\ loc[w].disk = "FileNotFoundError" =>
               /\ resp[w].kind = "Http404"
               /\ resp[w].message =
                      Some(IF req[w].view = "exercise_model"
                           THEN "Model file missing" ELSE "Template file missing")
               /\ resp[w].cause = Some("FileNotFoundError")
               /\ resp[w] # Http404
               /\ Len(opened[w]) = 1

\* a model file and a template file both missing on disk
C9_Witness ==
    \E w, v \in Workers :
        /\ Resolved(w) /\ Done(w) /\ req[w].view = "exercise_model"
        /\ loc[w].disk = "FileNotFoundError"
        /\ Resolved(v) /\ Done(v) /\ req[v].view = "exercise_template"
        /\ loc[v].disk = "FileNotFoundError"

----------------------------------------------------------------------------
(* Properties of the export *)

Exported(w) == req[w].view = "aplus_json" /\ Done(w) /\ resp[w].kind = "JsonResponse"

\* the exported objects stand for the nodes one to one and in order, at every depth
RECURSIVE SameShape(_, _)
SameShape(nodes, objs) ==
    /\ Len(objs) = Len(nodes)
    /\ \A i \in 1..Len(nodes) :
          /\ "children" \in DOMAIN objs[i]
          /\ objs[i].key = nodes[i].attrs.key[1]
          /\ SameShape(nodes[i].attrs.children[1], objs[i].children)

\* C5: in the export every node, the modules included, has in its children
\* array one object per child, in the declared order, whatever the children's
\* types; a node without children has an empty array; no transform replaces
\* or drops the array.
C5_ChildrenPreserved ==
    \A w \in Workers : Exported(w) =>
        SameShape(store[req[w].course_key].data.modules[1], resp[w].data.modules)

\* the export of course "demo": three levels, all node types, empty children
C5_Witness ==
    \E w \in Workers :
        /\ Exported(w) /\ req[w].course_key = "demo"
        /\ Len(resp[w].data.modules) = 2
        /\ Len(resp[w].data.modules[1].children[1].children) = 3
        /\ resp[w].data.modules[2].children = << >>

OwnFields(obj) == [n \in (DOMAIN obj) \ {"children"} |-> obj[n]]

\* the node's fields that are set, its children apart
SetFields(o) == { n \in (DOMAIN o.attrs) \ {"children"} : o.attrs[n] # None }

PassedThrough(o, obj) ==
    /\ DOMAIN OwnFields(obj) = SetFields(o)
    /\ \A n \in SetFields(o) : obj[n] = o.attrs[n][1]

HasConfig(o) ==
    /\ o.cls = "Exercise"
    /\ o.attrs.config # None
    /\ o.attrs.config[1] # ""

OwnDict(o) == [n \in SetFields(o) |-> o.attrs[n][1]]

RECURSIVE Dispatched(_, _, _, _)
Dispatched(request, config, nodes, objs) ==
    /\ Len(objs) = Len(nodes)
    /\ \A i \in 1..Len(nodes) :
          LET o == nodes[i]
              obj == objs[i]
          IN  /\ HasConfig(o) =>
                    OwnFields(obj) = export_exercise(request, config,
                                         Some(config.exercises[o.attrs.key[1]]), OwnDict(o))
              /\ o.cls = "Chapter" => OwnFields(obj) = export_chapter(request, config, OwnDict(o))
              /\ (~HasConfig(o) /\ o.cls # "Chapter") => PassedThrough(o, obj)
              /\ Dispatched(request, config, o.attrs.children[1], obj.children)

\* C10: every exported node got the one transform its type selects: the
\* exercise export for an Exercise with a config, the chapter export for a
\* Chapter, and for every other node, an Exercise without config included,
\* exactly its own fields that are set, without its children field, plus the
\* exported children.
C10_OneTransformPerNode ==
    \A w \in Workers : Exported(w) =>
        Dispatched(req[w], store[req[w].course_key],
                   store[req[w].course_key].data.modules[1], resp[w].data.modules)

\* "demo" holds an Exercise with a config, two without, a Chapter, other nodes
C10_Witness ==
    \E w \in Workers :
        /\ Exported(w) /\ req[w].course_key = "demo"
        /\ "url" \in DOMAIN resp[w].data.modules[1].children[1]
        /\ "url" \in DOMAIN resp[w].data.modules[1].children[1].children[1]
        /\ "url" \notin DOMAIN resp[w].data.modules[1].children[1].children[2]
        /\ "url" \notin DOMAIN resp[w].data.modules[1].children[2]

\* two requests that ask the same of the same files
SameRequest(w, v) == req[w] = req[v] /\ loc[w].disk = loc[v].disk

\* C8: no view changes state that requests share: the cached configurations
\* are as they were, a worker that has finished a request carries nothing of
\* it into the next one, and a request gets the same response whatever the
\* other worker does meanwhile and whatever was served before.
C8_NoSharedMutation ==
    /\ store = StoreWith(DefaultFiles)
    /\ \A w \in Workers : pc[w] = "idle" => active[w] = None
    /\ \A w, v \in Workers : (Done(w) /\ Done(v) /\ SameRequest(w, v)) => resp[w] = resp[v]

\* the part of C8 that the views keep: the cached configurations never change
StoreUnchanged == store = StoreWith(DefaultFiles)

====
